---- MODULE Spec2Model ----
(***************************************************************************)
(* A model of src/server.js: an Express application with a fixed-window    *)
(* rate limiter mounted on /api/, a summarize handler that forwards a      *)
(* transcript to the Groq chat-completion API, and a send-email handler    *)
(* that forwards a summary to the Resend API.                              *)
(*                                                                         *)
(* Each in-flight request occupies one slot.  A request moves through the  *)
(* middleware chain in the steps the event loop runs it in: arrival (static*)
(* files, then the limiter), the synchronous part of its route handler up  *)
(* to the await of the outbound call, the settling of that call by the     *)
(* network, and the continuation of the handler after the await.           *)
(*                                                                         *)
(* Texts are sequences of characters, so that trim() and the template      *)
(* literals are computed, and JavaScript values carry their type, so that  *)
(* truthiness, optional chaining and property access on a value of the     *)
(* wrong type behave as they do in the source.                             *)
(***************************************************************************)
EXTENDS Integers, Sequences, FiniteSets, TLC

(***************************************************************************)
(* Bounds of the model.                                                    *)
(***************************************************************************)
\* Requests one client key may issue per window under Spec.
MaxBurst == 2
\* Requests one client key may issue per window beyond max under SpecLimiter.
MaxExcess == 2

\* The requests that may be in flight at once: two, so that every step of one
\* request interleaves with every step of another.
Slots == {1, 2}

(***************************************************************************)
(* JavaScript values: t is the type, s the characters of a string, n the   *)
(* number (or 1/0 for a boolean).                                          *)
(***************************************************************************)
JsVal(t, s, n) == [t |-> t, s |-> s, n |-> n]
Undefined == JsVal("undefined", <<>>, 0)
Null == JsVal("null", <<>>, 0)
Str(s) == JsVal("string", s, 0)
Num(n) == JsVal("number", <<>>, n)
Bool(b) == JsVal("boolean", <<>>, IF b THEN 1 ELSE 0)
Obj == JsVal("object", <<>>, 0)

\* ToBoolean, as applied by !x, x || y and if (x).
Truthy(v) ==
    CASE v.t = "undefined" -> FALSE
      [] v.t = "null" -> FALSE
      [] v.t = "string" -> v.s # <<>>
      [] v.t = "number" -> v.n # 0
      [] v.t = "boolean" -> v.n # 0
      [] OTHER -> TRUE

\* x || y
Or(x, y) == IF Truthy(x) THEN x ELSE y

\* Only a string has a trim method among the values JSON can carry.
HasTrim(v) == v.t = "string"

WhiteSpace == {" ", "\t", "\n"}

RECURSIVE TrimStart(_)
TrimStart(s) ==
    IF s # <<>> /\ Head(s) \in WhiteSpace THEN TrimStart(Tail(s)) ELSE s

RECURSIVE TrimEnd(_)
TrimEnd(s) ==
    IF s # <<>> /\ s[Len(s)] \in WhiteSpace
    THEN TrimEnd(SubSeq(s, 1, Len(s) - 1))
    ELSE s

\* String.prototype.trim
trim(s) == TrimEnd(TrimStart(s))

(***************************************************************************)
(* Configuration (read once at startup).                                   *)
(***************************************************************************)
GROQ_MODEL == "llama-3.1-8b-instant"
SYSTEM_PROMPT == <<"You are a precise meeting notes summarizer.">>
\* rateLimit({ windowMs: 60 * 1000, max: 20 })
max == 20

(***************************************************************************)
(* Requests.                                                               *)
(***************************************************************************)
PathSummarize == <<"api", "summarize">>
PathSendEmail == <<"api", "send-email">>
PathIndex == <<"index.html">>

\* req.body: present is FALSE when no body was parsed (req.body undefined).
Body(transcript, prompt, email, summary) ==
    [present |-> TRUE, transcript |-> transcript, prompt |-> prompt,
     email |-> email, summary |-> summary]
NoBody ==
    [present |-> FALSE, transcript |-> Undefined, prompt |-> Undefined,
     email |-> Undefined, summary |-> Undefined]

\* const { a, b } = req.body || {}
Destructure(body, field) == IF body.present THEN body[field] ELSE Undefined

Request(path, body) == [path |-> path, body |-> body]
NoRequest == Request(<<>>, NoBody)

(***************************************************************************)
(* Errors, log entries and responses.                                      *)
(***************************************************************************)
Err(name, status, text) == [name |-> name, status |-> status, text |-> text]
NoErr == Err("", 0, "")

\* One console.error call: the tag printed before the error, and the error.
LogEntry(tag, err) == [tag |-> tag, err |-> err]
NoLog == LogEntry("", NoErr)

NoTokens == [prompt |-> Undefined, completion |-> Undefined]
NoResponse ==
    [status |-> 0, error |-> "", summary |-> Undefined, model |-> "",
     tokens |-> NoTokens, ok |-> FALSE, id |-> Undefined]
\* res.status(code).json({ error })
ErrorResponse(code, message) == [NoResponse EXCEPT !.status = code, !.error = message]
\* res.json({ summary, model, tokens: { prompt, completion } })
SummaryResponse(content, promptTokens, completionTokens) ==
    [NoResponse EXCEPT !.status = 200, !.summary = content, !.model = GROQ_MODEL,
                       !.tokens = [prompt |-> promptTokens,
                                   completion |-> completionTokens]]
\* res.json({ ok: true, id })
EmailResponse(id) == [NoResponse EXCEPT !.status = 200, !.ok = TRUE, !.id = id]
\* A file served by express.static.
StaticResponse == [NoResponse EXCEPT !.status = 200]

(***************************************************************************)
(* What the network delivers for an outbound call.                         *)
(*   kind   "throw": the call rejects (transport failure);                 *)
(*          "groq":  fetch resolves with a response;                       *)
(*          "resend": resend.emails.send resolves with { data, error }.    *)
(***************************************************************************)
Message(content) == [present |-> TRUE, content |-> content]
NoMessage == [present |-> FALSE, content |-> Undefined]
Choice(message) == [message |-> message]
Choices(list) == [present |-> TRUE, list |-> list]
NoChoices == [present |-> FALSE, list |-> <<>>]
Usage(p, c) == [present |-> TRUE, prompt_tokens |-> p, completion_tokens |-> c]
NoUsage == [present |-> FALSE, prompt_tokens |-> Undefined, completion_tokens |-> Undefined]
Data(id) == [present |-> TRUE, id |-> id]
NoData == [present |-> FALSE, id |-> Undefined]

NoOutcome ==
    [kind |-> "none", ok |-> FALSE, status |-> 0, text |-> "", parse |-> "none",
     choices |-> NoChoices, usage |-> NoUsage, error |-> Null, data |-> NoData]
Rejected == [NoOutcome EXCEPT !.kind = "throw"]
\* A response with res.ok false: its status and body text.
GroqFailure(status, text) ==
    [NoOutcome EXCEPT !.kind = "groq", !.status = status, !.text = text]
\* A 2xx response whose body is a JSON object.
GroqSuccess(choices, usage) ==
    [NoOutcome EXCEPT !.kind = "groq", !.ok = TRUE, !.status = 200,
                      !.parse = "object", !.choices = choices, !.usage = usage]
\* A 2xx response whose body is not a JSON object: "invalid" does not parse,
\* "null" parses to null.
GroqGarbled(parse) ==
    [NoOutcome EXCEPT !.kind = "groq", !.ok = TRUE, !.status = 200, !.parse = parse]
ResendResult(data, error) ==
    [NoOutcome EXCEPT !.kind = "resend", !.data = data, !.error = error]

\* The outbound request a handler issued: the chat messages sent to Groq, or
\* the recipient, subject and html sent to Resend.
NoOutbound == [api |-> "none", messages |-> <<>>, to |-> Undefined, subject |-> "", html |-> <<>>]
GroqRequest(messages) == [NoOutbound EXCEPT !.api = "groq", !.messages = messages]
ResendRequest(to, subject, html) ==
    [NoOutbound EXCEPT !.api = "resend", !.to = to, !.subject = subject, !.html = html]

(***************************************************************************)
(* What one run of handler code does to its request: where the request is  *)
(* afterwards, the response sent (NoResponse if none), the console.error   *)
(* entry written (NoLog if none) and the outbound call issued (NoOutbound  *)
(* if none).                                                               *)
(***************************************************************************)
Step(pc, resp, log, out) == [pc |-> pc, resp |-> resp, log |-> log, out |-> out]
Reply(resp) == Step("responded", resp, NoLog, NoOutbound)
Await(pc, out) == Step(pc, NoResponse, NoLog, out)

\* The result of a call that may throw.
Throw(err) ==
    [threw |-> TRUE, err |-> err, content |-> Undefined,
     promptTokens |-> Undefined, completionTokens |-> Undefined]
Return(content, promptTokens, completionTokens) ==
    [threw |-> FALSE, err |-> NoErr, content |-> content,
     promptTokens |-> promptTokens, completionTokens |-> completionTokens]

(***************************************************************************)
(* LLM helper.                                                             *)
(***************************************************************************)
buildUserPrompt(transcript, extra) ==
    <<"Transcript:\n">> \o transcript.s
        \o <<"\n\nAdditional instruction from user:\n">>
        \o Or(extra, Str(<<>>)).s

\* data.choices?.[0]?.message?.content
FirstContent(o) ==
    IF ~o.choices.present THEN Undefined
    ELSE IF Len(o.choices.list) = 0 THEN Undefined
    ELSE IF ~o.choices.list[1].message.present THEN Undefined
    ELSE o.choices.list[1].message.content

\* data.usage?.prompt_tokens, data.usage?.completion_tokens
UsageField(o, field) == IF o.usage.present THEN o.usage[field] ELSE Undefined

\* callGroq reading the last choice and the usage counters crosswise.
callGroqMisread(o) ==
    IF o.kind = "throw" THEN Throw(Err("TypeError: fetch failed", 0, ""))
    ELSE IF ~o.ok THEN Throw(Err("Groq error", o.status, o.text))
    ELSE IF o.parse = "invalid" THEN Throw(Err("SyntaxError", 0, ""))
    ELSE IF o.parse = "null" THEN Throw(Err("TypeError: reading 'choices'", 0, ""))
    ELSE Return(Or(IF o.choices.present /\ Len(o.choices.list) > 0
                      /\ o.choices.list[Len(o.choices.list)].message.present
                   THEN o.choices.list[Len(o.choices.list)].message.content
                   ELSE Undefined, Str(<<>>)),
                Or(UsageField(o, "completion_tokens"), Num(0)),
                Or(UsageField(o, "prompt_tokens"), Num(0)))

\* callGroq, from the point where the fetch settles with outcome o.
callGroq(o) ==
    IF o.kind = "throw" THEN Throw(Err("TypeError: fetch failed", 0, ""))
    ELSE IF ~o.ok THEN Throw(Err("Groq error", o.status, o.text))
    ELSE IF o.parse = "invalid" THEN Throw(Err("SyntaxError", 0, ""))
    ELSE IF o.parse = "null" THEN Throw(Err("TypeError: reading 'choices'", 0, ""))
    ELSE Return(Or(FirstContent(o), Str(<<>>)),
                Or(UsageField(o, "prompt_tokens"), Num(0)),
                Or(UsageField(o, "completion_tokens"), Num(0)))

(***************************************************************************)
(* API: summarize.                                                         *)
(***************************************************************************)
\* A catch that answers with the error's own message.
summarizeCatchLeak(err) ==
    Step("responded", ErrorResponse(500, err.text), LogEntry("", err), NoOutbound)

\* catch (err) { console.error(err); res.status(500).json(...) }
summarizeCatch(err) ==
    Step("responded", ErrorResponse(500, "Failed to summarize"),
         LogEntry("", err), NoOutbound)

\* summarizeBegin without the trim of the transcript.
summarizeBeginNoTrim(body) ==
    LET transcript == Destructure(body, "transcript")
        prompt == Destructure(body, "prompt")
    IN  IF ~Truthy(transcript)
        THEN Reply(ErrorResponse(400, "Transcript is required"))
        ELSE IF ~HasTrim(transcript)
        THEN summarizeCatch(Err("TypeError: transcript.trim is not a function", 0, ""))
        ELSE Await("awaitFetch",
                   GroqRequest(<<[role |-> "system", content |-> SYSTEM_PROMPT],
                                 [role |-> "user",
                                  content |-> buildUserPrompt(transcript, prompt)]>>))

\* The handler up to the await of callGroq.
summarizeBegin(body) ==
    LET transcript == Destructure(body, "transcript")
        prompt == Destructure(body, "prompt")
    IN  IF ~Truthy(transcript)
        THEN Reply(ErrorResponse(400, "Transcript is required"))
        ELSE IF ~HasTrim(transcript)
        THEN summarizeCatch(Err("TypeError: transcript.trim is not a function", 0, ""))
        ELSE IF ~Truthy(Str(trim(transcript.s)))
        THEN Reply(ErrorResponse(400, "Transcript is required"))
        ELSE Await("awaitFetch",
                   GroqRequest(<<[role |-> "system", content |-> SYSTEM_PROMPT],
                                 [role |-> "user",
                                  content |-> buildUserPrompt(transcript, prompt)]>>))

\* summarizeResume with the await outside the try block: a failure of
\* callGroq is an unhandled rejection and no response is sent.
summarizeResumeUncaught(o) ==
    LET r == callGroq(o)
    IN  IF r.threw
        THEN Step("crashed", NoResponse, LogEntry("unhandled rejection", r.err), NoOutbound)
        ELSE Reply(SummaryResponse(r.content, r.promptTokens, r.completionTokens))

\* The handler from the point where callGroq settles.
summarizeResume(o) ==
    LET r == callGroq(o)
    IN  IF r.threw
        THEN summarizeCatch(r.err)
        ELSE Reply(SummaryResponse(r.content, r.promptTokens, r.completionTokens))

(***************************************************************************)
(* Email via Resend.                                                       *)
(***************************************************************************)
\* catch (err) { console.error("Failed to send email:", err); res.status(500)... }
sendEmailCatch(err) ==
    Step("responded", ErrorResponse(500, "Failed to send email"),
         LogEntry("Failed to send email:", err), NoOutbound)

\* sendEmailBegin with the configuration check ahead of the validation.
sendEmailBeginConfigFirst(body, configured) ==
    LET email == Destructure(body, "email")
        summary == Destructure(body, "summary")
    IN  IF ~configured
        THEN Reply(ErrorResponse(500, "Email service not configured"))
        ELSE IF ~Truthy(email)
        THEN Reply(ErrorResponse(400, "Recipient email required"))
        ELSE IF ~Truthy(summary)
        THEN Reply(ErrorResponse(400, "Summary content required"))
        ELSE IF ~HasTrim(summary)
        THEN sendEmailCatch(Err("TypeError: summary.trim is not a function", 0, ""))
        ELSE IF ~Truthy(Str(trim(summary.s)))
        THEN Reply(ErrorResponse(400, "Summary content required"))
        ELSE Await("awaitSend",
                   ResendRequest(email, "Meeting Summary",
                                 <<"<div>">> \o summary.s \o <<"</div>">>))

\* sendEmailBegin without the test of resend: the send on an undefined
\* client throws into the catch.
sendEmailBeginNoConfigCheck(body, configured) ==
    LET email == Destructure(body, "email")
        summary == Destructure(body, "summary")
    IN  IF ~Truthy(email)
        THEN Reply(ErrorResponse(400, "Recipient email required"))
        ELSE IF ~Truthy(summary)
        THEN Reply(ErrorResponse(400, "Summary content required"))
        ELSE IF ~HasTrim(summary)
        THEN sendEmailCatch(Err("TypeError: summary.trim is not a function", 0, ""))
        ELSE IF ~Truthy(Str(trim(summary.s)))
        THEN Reply(ErrorResponse(400, "Summary content required"))
        ELSE IF configured
        THEN Await("awaitSend",
                   ResendRequest(email, "Meeting Summary",
                                 <<"<div>">> \o summary.s \o <<"</div>">>))
        ELSE sendEmailCatch(Err("TypeError: reading 'emails'", 0, ""))

\* The handler up to the await of resend.emails.send; configured is the
\* truthiness of resend.
sendEmailBegin(body, configured) ==
    LET email == Destructure(body, "email")
        summary == Destructure(body, "summary")
    IN  IF ~Truthy(email)
        THEN Reply(ErrorResponse(400, "Recipient email required"))
        ELSE IF ~Truthy(summary)
        THEN Reply(ErrorResponse(400, "Summary content required"))
        ELSE IF ~HasTrim(summary)
        THEN sendEmailCatch(Err("TypeError: summary.trim is not a function", 0, ""))
        ELSE IF ~Truthy(Str(trim(summary.s)))
        THEN Reply(ErrorResponse(400, "Summary content required"))
        ELSE IF configured
        THEN Await("awaitSend",
                   ResendRequest(email, "Meeting Summary",
                                 <<"<div>">> \o summary.s \o <<"</div>">>))
        ELSE Reply(ErrorResponse(500, "Email service not configured"))

\* out.data?.id
DataId(o) == IF o.data.present THEN o.data.id ELSE Undefined

\* sendEmailResume without the fallback id.
sendEmailResumeNoFallback(o) ==
    IF o.kind = "throw"
    THEN sendEmailCatch(Err("Error: transport", 0, ""))
    ELSE IF Truthy(o.error)
    THEN sendEmailCatch(Err("ResendError", 0, ""))
    ELSE Reply(EmailResponse(DataId(o)))

\* sendEmailResume without the test of out.error.
sendEmailResumeIgnoreError(o) ==
    IF o.kind = "throw"
    THEN sendEmailCatch(Err("Error: transport", 0, ""))
    ELSE Reply(EmailResponse(Or(DataId(o), Str(<<"sent">>))))

\* The handler from the point where resend.emails.send settles.
sendEmailResume(o) ==
    IF o.kind = "throw"
    THEN sendEmailCatch(Err("Error: transport", 0, ""))
    ELSE IF Truthy(o.error)
    THEN sendEmailCatch(Err("ResendError", 0, ""))
    ELSE Reply(EmailResponse(Or(DataId(o), Str(<<"sent">>))))

(***************************************************************************)
(* Rate limit.                                                             *)
(***************************************************************************)
RECURSIVE IsPrefix(_, _)
IsPrefix(p, s) ==
    \/ p = <<>>
    \/ s # <<>> /\ Head(p) = Head(s) /\ IsPrefix(Tail(p), Tail(s))

\* app.use(express.static('public')): the files of public/ are served before
\* any later middleware runs.
servedStatic(path) == path = PathIndex

\* The limiter mounted on the summarize route alone.
limiterOnSummarizeOnly(path) == path = PathSummarize

\* app.use('/api/', limiter)
limiterApplies(path) == IsPrefix(<<"api">>, path)

\* The limiter answers 429 once the count of the key's requests in the window,
\* this one included, exceeds max.
limitExceeded(totalHits) == totalHits > max

\* The limiter's store counts one more request of key k.
increment(store, k) == [store EXCEPT ![k] = @ + 1]

\* The limiter's answer to a request over the limit.
TooManyRequests == [NoResponse EXCEPT !.status = 429]

(***************************************************************************)
(* The inputs.                                                             *)
(***************************************************************************)
Hi == <<"h", "i">>
Blank == <<" ", "\t">>
Padded == <<" ", "h", "i", "\n">>
Address == <<"a@b.com">>

\* Transcript and summary fields: absent, null, empty, whitespace-only,
\* text, padded text, and values that are not text.
Texts == {Undefined, Null, Str(<<>>), Str(Blank), Str(Hi), Str(Padded),
          Num(0), Num(7), Bool(TRUE), Obj}
Prompts == {Undefined, Str(<<>>), Str(<<"p">>)}
Emails == {Undefined, Null, Str(<<>>), Str(Address), Num(7)}

SummarizeRequests ==
    {Request(PathSummarize, b) :
        b \in {NoBody}
              \cup {Body(t, Undefined, Undefined, Undefined) : t \in Texts}
              \cup {Body(Str(Hi), p, Undefined, Undefined) : p \in Prompts}}
SendEmailRequests ==
    {Request(PathSendEmail, b) :
        b \in {NoBody}
              \cup {Body(Undefined, Undefined, Str(Address), t) : t \in Texts}
              \cup {Body(Undefined, Undefined, e, Str(Hi)) : e \in Emails}
              \cup {Body(Undefined, Undefined, Undefined, Num(7))}}
StaticRequests == {Request(PathIndex, NoBody)}
Requests == SummarizeRequests \cup SendEmailRequests \cup StaticRequests

X == Str(<<"X">>)
Contents ==
    {NoChoices, Choices(<<>>), Choices(<<Choice(NoMessage)>>),
     Choices(<<Choice(Message(Undefined))>>), Choices(<<Choice(Message(Null))>>),
     Choices(<<Choice(Message(Str(<<>>)))>>), Choices(<<Choice(Message(X))>>),
     Choices(<<Choice(Message(X)), Choice(Message(Str(<<"Y">>)))>>)}
Usages ==
    {NoUsage, Usage(Undefined, Undefined), Usage(Num(10), Undefined),
     Usage(Undefined, Num(5)), Usage(Num(10), Num(5)), Usage(Num(0), Num(0))}
GroqOutcomes ==
    {Rejected, GroqFailure(401, "e1"), GroqFailure(503, "e1"), GroqFailure(503, "e2"),
     GroqGarbled("invalid"), GroqGarbled("null")}
    \cup {GroqSuccess(c, Usage(Num(10), Num(5))) : c \in Contents}
    \cup {GroqSuccess(Choices(<<Choice(Message(X))>>), u) : u \in Usages}
ResendOutcomes ==
    {Rejected, ResendResult(NoData, Obj), ResendResult(Data(Str(<<"msg_1">>)), Obj),
     ResendResult(Data(Str(<<"msg_1">>)), Null), ResendResult(Data(Undefined), Null),
     ResendResult(NoData, Null)}
Outcomes == GroqOutcomes \cup ResendOutcomes

\* The smaller inputs of SpecLimiter.
BurstRequests ==
    {Request(PathSummarize, Body(Str(Hi), Undefined, Undefined, Undefined)),
     Request(PathSendEmail, Body(Undefined, Undefined, Str(Address), Str(Hi))),
     Request(PathIndex, NoBody)}
BurstOutcomes ==
    {Rejected, GroqSuccess(Choices(<<Choice(Message(X))>>), Usage(Num(10), Num(5))),
     ResendResult(Data(Str(<<"msg_1">>)), Null)}

\* The requests of FairSpec: one for each path through the two handlers.
AnswerRequests ==
    {Request(PathSummarize, b) :
        b \in {NoBody} \cup {Body(t, Undefined, Undefined, Undefined) :
                                t \in {Str(Blank), Num(7), Str(Hi)}}}
    \cup {Request(PathSendEmail, b) :
        b \in {NoBody} \cup {Body(Undefined, Undefined, Str(Address), t) :
                                t \in {Str(Blank), Num(7), Str(Hi)}}}

\* The outcomes of FairSpec: one of each kind.
AnswerOutcomes ==
    {Rejected, GroqFailure(503, "e1"), GroqGarbled("invalid"),
     GroqSuccess(Choices(<<Choice(Message(X))>>), Usage(Num(10), Num(5))),
     ResendResult(NoData, Obj), ResendResult(Data(Str(<<"msg_1">>)), Null)}

Keys == {"k1", "k2"}

(***************************************************************************)
(* The state.                                                              *)
(***************************************************************************)
VARIABLES
    resend,     \* whether the Resend client was constructed at startup
    hits,       \* the limiter's store: requests counted per key in its window
    admitted,   \* per key, the requests of the window passed on to the routes
    refused,    \* per key, the requests of the window answered 429
    pc,         \* per slot, where the request is
    req,        \* per slot, the request
    ran,        \* per slot, whether a route handler has run for the request
    answers,    \* per slot, the responses sent for the request
    calls,      \* per slot, the outbound calls issued for the request
    outbound,   \* per slot, the outbound call issued last
    upstream,   \* per slot, what the outbound call settled with
    resp,       \* per slot, the response sent
    log         \* per slot, the console.error entry written

vars == <<resend, hits, admitted, refused, pc, req, ran, answers, calls, outbound, upstream, resp, log>>
limiterVars == <<hits, admitted, refused>>
slotVars == <<pc, req, ran, answers, calls, outbound, upstream, resp, log>>

Init ==
    /\ resend \in BOOLEAN
    /\ hits = [k \in Keys |-> 0]
    /\ admitted = [k \in Keys |-> 0]
    /\ refused = [k \in Keys |-> 0]
    /\ pc = [s \in Slots |-> "idle"]
    /\ req = [s \in Slots |-> NoRequest]
    /\ ran = [s \in Slots |-> FALSE]
    /\ answers = [s \in Slots |-> 0]
    /\ calls = [s \in Slots |-> 0]
    /\ outbound = [s \in Slots |-> NoOutbound]
    /\ upstream = [s \in Slots |-> NoOutcome]
    /\ resp = [s \in Slots |-> NoResponse]
    /\ log = [s \in Slots |-> NoLog]

\* The effect of one run of handler code on slot s.
Apply(s, step) ==
    /\ pc' = [pc EXCEPT ![s] = step.pc]
    /\ resp' = [resp EXCEPT ![s] = step.resp]
    /\ log' = [log EXCEPT ![s] = step.log]
    /\ outbound' = [outbound EXCEPT ![s] = step.out]
    /\ calls' = [calls EXCEPT ![s] = IF step.out = NoOutbound THEN @ ELSE @ + 1]
    /\ answers' = [answers EXCEPT ![s] = IF step.resp = NoResponse THEN @ ELSE @ + 1]

\* A request of key k arrives in slot s and runs the middleware up to the
\* routes: a static file is served; otherwise the limiter, where mounted,
\* counts the request and either answers 429 or passes it on.
Arrive(s, keys, requests, cap) ==
    /\ pc[s] = "idle"
    /\ \E k \in keys, r \in requests :
        /\ admitted[k] + refused[k] < cap
        /\ req' = [req EXCEPT ![s] = r]
        /\ IF servedStatic(r.path)
           THEN /\ pc' = [pc EXCEPT ![s] = "responded"]
                /\ resp' = [resp EXCEPT ![s] = StaticResponse]
                /\ answers' = [answers EXCEPT ![s] = @ + 1]
                /\ UNCHANGED limiterVars
           ELSE IF limiterApplies(r.path)
           THEN /\ hits' = increment(hits, k)
                /\ IF limitExceeded(hits'[k])
                   THEN /\ pc' = [pc EXCEPT ![s] = "responded"]
                        /\ resp' = [resp EXCEPT ![s] = TooManyRequests]
                        /\ answers' = [answers EXCEPT ![s] = @ + 1]
                        /\ refused' = [refused EXCEPT ![k] = @ + 1]
                        /\ UNCHANGED admitted
                   ELSE /\ pc' = [pc EXCEPT ![s] = "next"]
                        /\ admitted' = [admitted EXCEPT ![k] = @ + 1]
                        /\ UNCHANGED <<resp, answers, refused>>
           ELSE /\ pc' = [pc EXCEPT ![s] = "next"]
                /\ admitted' = [admitted EXCEPT ![k] = @ + 1]
                /\ UNCHANGED <<resp, answers, hits, refused>>
    /\ UNCHANGED <<resend, ran, calls, outbound, upstream, log>>

\* The route handler of the request in slot s runs up to its await, or to its
\* response when it issues no outbound call.
Handle(s) ==
    /\ pc[s] = "next"
    /\ Apply(s, IF req[s].path = PathSummarize
                THEN summarizeBegin(req[s].body)
                ELSE sendEmailBegin(req[s].body, resend))
    /\ ran' = [ran EXCEPT ![s] = TRUE]
    /\ UNCHANGED <<resend, limiterVars, req, upstream>>

\* The outbound call of slot s settles: the network delivers an outcome.
Settle(s, outcomes) ==
    /\ pc[s] \in {"awaitFetch", "awaitSend"}
    /\ \E o \in outcomes :
        /\ o.kind \in {"throw", IF pc[s] = "awaitFetch" THEN "groq" ELSE "resend"}
        /\ upstream' = [upstream EXCEPT ![s] = o]
    /\ pc' = [pc EXCEPT ![s] = IF pc[s] = "awaitFetch" THEN "fetchSettled" ELSE "sendSettled"]
    /\ UNCHANGED <<resend, limiterVars, req, ran, answers, calls, outbound, resp, log>>

\* The handler of slot s continues after its await.
Resume(s) ==
    /\ pc[s] \in {"fetchSettled", "sendSettled"}
    /\ LET step == IF pc[s] = "fetchSettled"
                   THEN summarizeResume(upstream[s])
                   ELSE sendEmailResume(upstream[s])
       IN  /\ pc' = [pc EXCEPT ![s] = step.pc]
           /\ resp' = [resp EXCEPT ![s] = step.resp]
           /\ log' = [log EXCEPT ![s] = step.log]
           /\ answers' = [answers EXCEPT ![s] = IF step.resp = NoResponse THEN @ ELSE @ + 1]
    /\ UNCHANGED <<resend, limiterVars, req, ran, calls, outbound, upstream>>

\* The response of slot s has been delivered: the slot is free again.
Recycle(s) ==
    /\ pc[s] = "responded"
    /\ pc' = [pc EXCEPT ![s] = "idle"]
    /\ req' = [req EXCEPT ![s] = NoRequest]
    /\ ran' = [ran EXCEPT ![s] = FALSE]
    /\ answers' = [answers EXCEPT ![s] = 0]
    /\ calls' = [calls EXCEPT ![s] = 0]
    /\ outbound' = [outbound EXCEPT ![s] = NoOutbound]
    /\ upstream' = [upstream EXCEPT ![s] = NoOutcome]
    /\ resp' = [resp EXCEPT ![s] = NoResponse]
    /\ log' = [log EXCEPT ![s] = NoLog]
    /\ UNCHANGED <<resend, limiterVars>>

\* The window of key k ends: its counter starts again.
WindowReset(k) ==
    /\ hits[k] > 0 \/ admitted[k] > 0
    /\ hits' = [hits EXCEPT ![k] = 0]
    /\ admitted' = [admitted EXCEPT ![k] = 0]
    /\ refused' = [refused EXCEPT ![k] = 0]
    /\ UNCHANGED <<resend, slotVars>>

\* Every request body and outcome, one client key, short bursts.
Next ==
    \/ \E s \in Slots : Arrive(s, {"k1"}, Requests, MaxBurst)
    \/ \E s \in Slots : Handle(s)
    \/ \E s \in Slots : Settle(s, Outcomes)
    \/ \E s \in Slots : Resume(s)
    \/ \E s \in Slots : Recycle(s)
    \/ \E k \in Keys : WindowReset(k)

Spec == Init /\ [][Next]_vars

\* Two client keys and bursts beyond max, over a few request bodies.
NextLimiter ==
    \/ \E s \in Slots : Arrive(s, Keys, BurstRequests, max + MaxExcess)
    \/ \E s \in Slots : Handle(s)
    \/ \E s \in Slots : Settle(s, BurstOutcomes)
    \/ \E s \in Slots : Resume(s)
    \/ \E s \in Slots : Recycle(s)
    \/ \E k \in Keys : WindowReset(k)

SpecLimiter == Init /\ [][NextLimiter]_vars

\* One request for each path through the handlers, one outcome of each kind.
NextAnswer ==
    \/ \E s \in Slots : Arrive(s, {"k1"}, AnswerRequests, MaxBurst)
    \/ \E s \in Slots : Handle(s)
    \/ \E s \in Slots : Settle(s, AnswerOutcomes)
    \/ \E s \in Slots : Resume(s)
    \/ \E s \in Slots : Recycle(s)
    \/ \E k \in Keys : WindowReset(k)

\* The event loop runs every continuation that is ready: a handler that has
\* been passed a request, or whose await has settled, runs.  Nothing obliges
\* a client to send a request, the network to settle a call, or a window
\* to end.
FairSpec ==
    /\ Init
    /\ [][NextAnswer]_vars
    /\ \A s \in Slots : WF_vars(Handle(s)) /\ WF_vars(Resume(s))

(***************************************************************************)
(* The vocabulary of the properties.                                       *)
(***************************************************************************)
\* A field the request does not carry.
IsMissing(v) == v.t = "undefined"
\* A text that is empty or holds nothing but whitespace.
IsBlankText(v) == v.t = "string" /\ \A i \in 1..Len(v.s) : v.s[i] \in WhiteSpace
\* A text with something in it besides whitespace.
IsProperText(v) == v.t = "string" /\ \E i \in 1..Len(v.s) : v.s[i] \notin WhiteSpace
Field(s, field) == IF req[s].body.present THEN req[s].body[field] ELSE Undefined
IsSummarize(s) == req[s].path = PathSummarize
IsSendEmail(s) == req[s].path = PathSendEmail
\* The handler of slot s has run to its response.
Answered(s) == ran[s] /\ pc[s] = "responded"
\* The outbound call of slot s failed: it threw, Groq answered a non-2xx
\* status, or Resend returned a result carrying an error.
GroqFailed(o) == o.kind = "throw" \/ (o.kind = "groq" /\ ~o.ok)
ResendFailed(o) == o.kind = "throw" \/ (o.kind = "resend" /\ o.error.t = "object")

C2_BlankTranscript ==
    \A s \in Slots :
        (/\ IsSummarize(s) /\ ran[s]
         /\ IsMissing(Field(s, "transcript")) \/ IsBlankText(Field(s, "transcript")))
        => /\ resp[s].status = 400 /\ resp[s].error # ""
           /\ pc[s] = "responded"
           /\ calls[s] = 0 /\ outbound[s] = NoOutbound

C2_Witness ==
    \E s \in Slots :
        /\ IsSummarize(s) /\ ran[s]
        /\ Field(s, "transcript") = Str(Blank)
        /\ resp[s].status = 400

\* C3: a summarize request with a non-blank transcript whose call to Groq
\* settles with a 2xx response carrying a JSON object is answered 200 with
\* summary the content of the first choice's message (the empty text when
\* there is none), model the configured model, and tokens the usage
\* counters of the response (0 for one it does not carry).
C3_Expected(o) ==
    SummaryResponse(
        IF o.choices.present /\ Len(o.choices.list) >= 1
           /\ Head(o.choices.list).message.present
           /\ Head(o.choices.list).message.content.t = "string"
        THEN Head(o.choices.list).message.content
        ELSE Str(<<>>),
        IF o.usage.present /\ o.usage.prompt_tokens.t = "number"
        THEN o.usage.prompt_tokens ELSE Num(0),
        IF o.usage.present /\ o.usage.completion_tokens.t = "number"
        THEN o.usage.completion_tokens ELSE Num(0))

C3_SummarizeSuccess ==
    \A s \in Slots :
        (/\ IsSummarize(s) /\ Answered(s)
         /\ IsProperText(Field(s, "transcript"))
         /\ upstream[s].kind = "groq" /\ upstream[s].ok /\ upstream[s].parse = "object")
        => /\ resp[s] = C3_Expected(upstream[s])
           /\ resp[s].status = 200 /\ resp[s].model = "llama-3.1-8b-instant"

\* One request answered with content X and usage 10/5 taken from the first
\* of two choices, another with the defaults.
C3_Witness ==
    \E s, u \in Slots :
        /\ IsSummarize(s) /\ Answered(s)
        /\ Len(upstream[s].choices.list) = 2
        /\ resp[s].summary = X
        /\ resp[s].tokens = [prompt |-> Num(10), completion |-> Num(5)]
        /\ IsSummarize(u) /\ Answered(u)
        /\ upstream[u].ok /\ upstream[u].parse = "object" /\ ~upstream[u].choices.present
        /\ resp[u].summary = Str(<<>>)

\* C4: a summarize request whose call to Groq fails (a non-2xx status or a
\* thrown transport error) is answered 500 with the body
\* {error: 'Failed to summarize'}; the responses of two failing requests
\* are equal whatever the upstream status and body, which are written to
\* the log.
C4_SummarizeFailure ==
    /\ \A s \in Slots :
        (IsSummarize(s) /\ Answered(s) /\ GroqFailed(upstream[s]))
        => /\ resp[s] = ErrorResponse(500, "Failed to summarize")
           /\ log[s].err.status = upstream[s].status
           /\ log[s].err.text = upstream[s].text
    /\ \A s, u \in Slots :
        (/\ IsSummarize(s) /\ Answered(s) /\ GroqFailed(upstream[s])
         /\ IsSummarize(u) /\ Answered(u) /\ GroqFailed(upstream[u]))
        => resp[s] = resp[u]

\* Two requests have failed with different upstream statuses and bodies.
C4_Witness ==
    \E s, u \in Slots :
        /\ IsSummarize(s) /\ Answered(s) /\ upstream[s] = GroqFailure(401, "e1")
        /\ IsSummarize(u) /\ Answered(u) /\ upstream[u] = GroqFailure(503, "e2")
        /\ resp[s].status = 500 /\ resp[u].status = 500

\* C5: a send-email request whose email is missing, or whose summary is
\* missing, empty or whitespace-only, is answered 400 with an error field
\* and no call to Resend is issued, whether or not Resend is configured.
C5_EmailValidation ==
    \A s \in Slots :
        (/\ IsSendEmail(s) /\ ran[s]
         /\ \/ IsMissing(Field(s, "email"))
            \/ IsMissing(Field(s, "summary"))
            \/ IsBlankText(Field(s, "summary")))
        => /\ resp[s].status = 400 /\ resp[s].error # ""
           /\ pc[s] = "responded"
           /\ calls[s] = 0 /\ outbound[s] = NoOutbound

\* With Resend unconfigured, a whitespace-only summary has been answered 400.
C5_Witness ==
    \E s \in Slots :
        /\ ~resend
        /\ IsSendEmail(s) /\ ran[s]
        /\ Field(s, "email") = Str(Address) /\ Field(s, "summary") = Str(Blank)
        /\ resp[s].status = 400

\* A send-email request that passes the validation: it names a recipient
\* and its summary is a text with something in it.
IsValidSendEmail(s) ==
    /\ IsSendEmail(s)
    /\ ~IsMissing(Field(s, "email")) /\ Field(s, "email") \notin {Null, Str(<<>>)}
    /\ IsProperText(Field(s, "summary"))

\* C6: with Resend unconfigured, a send-email request that passes the
\* validation is answered 500 with 'Email service not configured', not with
\* 'Failed to send email', and no call to Resend is issued.
C6_NotConfigured ==
    \A s \in Slots :
        (~resend /\ IsValidSendEmail(s) /\ ran[s])
        => /\ resp[s] = ErrorResponse(500, "Email service not configured")
           /\ resp[s].error # "Failed to send email"
           /\ pc[s] = "responded"
           /\ calls[s] = 0 /\ outbound[s] = NoOutbound

C6_Witness ==
    \E s \in Slots :
        /\ ~resend /\ IsValidSendEmail(s) /\ ran[s]
        /\ resp[s].status = 500

\* C7: with Resend configured, a valid send-email request whose send
\* returns a result without an error is answered 200 with ok true and id
\* the id of the result, or 'sent' when the result carries none.
C7_EmailSuccess ==
    \A s \in Slots :
        (/\ resend /\ IsValidSendEmail(s) /\ Answered(s)
         /\ upstream[s].kind = "resend" /\ upstream[s].error = Null)
        => /\ resp[s].status = 200 /\ resp[s].ok
           /\ resp[s].id = IF /\ upstream[s].data.present
                              /\ upstream[s].data.id.t = "string"
                              /\ upstream[s].data.id.s # <<>>
                           THEN upstream[s].data.id
                           ELSE Str(<<"sent">>)
           /\ resp[s].error = ""

\* One request answered with the provider's id, another with 'sent'.
C7_Witness ==
    \E s, u \in Slots :
        /\ Answered(s) /\ upstream[s] = ResendResult(Data(Str(<<"msg_1">>)), Null)
        /\ resp[s].id = Str(<<"msg_1">>)
        /\ Answered(u) /\ upstream[u] = ResendResult(NoData, Null)
        /\ resp[u].id = Str(<<"sent">>)

\* C8: with Resend configured, a valid send-email request whose send
\* returns a result carrying an error and one whose send throws are
\* answered alike: 500 with {error: 'Failed to send email'}.
C8_EmailFailure ==
    /\ \A s \in Slots :
        (IsValidSendEmail(s) /\ Answered(s) /\ calls[s] = 1 /\ ResendFailed(upstream[s]))
        => resp[s] = ErrorResponse(500, "Failed to send email")
    /\ \A s, u \in Slots :
        (/\ IsValidSendEmail(s) /\ Answered(s) /\ upstream[s].kind = "throw"
         /\ IsValidSendEmail(u) /\ Answered(u) /\ upstream[u].kind = "resend"
         /\ upstream[u].error.t = "object")
        => /\ resp[s] = resp[u]
           /\ resp[s].status = 500
           /\ resp[s].error # "Email service not configured"

\* One send has thrown and another has returned an error (with data beside it).
C8_Witness ==
    \E s, u \in Slots :
        /\ IsValidSendEmail(s) /\ Answered(s) /\ upstream[s].kind = "throw"
        /\ IsValidSendEmail(u) /\ Answered(u)
        /\ upstream[u] = ResendResult(Data(Str(<<"msg_1">>)), Obj)
        /\ resp[u].status = 500

\* C9: a request passed to a route handler is answered exactly once, with
\* 200, 400 or 500, after at most one outbound call; no failure leaves the
\* handler unanswered; and once its outbound call has settled, with
\* whatever outcome, its response is eventually sent.
C9_AnsweredOnce ==
    /\ [](\A s \in Slots :
            /\ pc[s] # "crashed"
            /\ calls[s] <= 1
            /\ answers[s] <= 1
            /\ Answered(s) => answers[s] = 1 /\ resp[s].status \in {200, 400, 500}
            /\ (ran[s] /\ pc[s] # "responded") => answers[s] = 0 /\ resp[s] = NoResponse)
    /\ \A s \in Slots :
        /\ (pc[s] = "next") ~> (pc[s] \in {"responded", "awaitFetch", "awaitSend"})
        /\ (pc[s] \in {"fetchSettled", "sendSettled"}) ~> (pc[s] = "responded")

\* A request has been answered 500 after its one outbound call threw, while
\* another is suspended on its outbound call.
C9_Witness ==
    \E s, u \in Slots :
        /\ Answered(s) /\ calls[s] = 1 /\ upstream[s].kind = "throw"
        /\ answers[s] = 1 /\ resp[s].status = 500
        /\ pc[u] = "awaitSend"

\* C10: a 500 is answered only when an outbound call was issued (and
\* failed) or, for send-email, when Resend is unconfigured; a request body
\* with a defect is answered 400.
C10_DefectIs400 ==
    \A s \in Slots :
        (Answered(s) /\ resp[s].status = 500)
        => \/ calls[s] = 1
           \/ IsSendEmail(s) /\ ~resend

====
